---- MODULE Spec2Model ----
(***************************************************************************)
(* Time-balance ledger engine of verk-employee-management.                 *)
(*                                                                         *)
(* Units.  Hours are Decimal values with two places (Numeric(4,2) and      *)
(* Numeric(6,2) columns, every calculation quantizes to 0.01); they are    *)
(* integers counting hundredths of an hour here.  Clock times are minutes  *)
(* after midnight (parse_time_string builds time(hours, minutes)).  Dates  *)
(* are proleptic Gregorian ordinals, as date.toordinal() returns them.     *)
(* An optional value is <<>> (None) or <<v>>.                              *)
(***************************************************************************)
EXTENDS Integers, Sequences, FiniteSets, TLC

VARIABLES entries, settings, result

vars == <<entries, settings, result>>

(***************************************************************************)
(* Optional values                                                         *)
(***************************************************************************)
None == <<>>

Some(v) == <<v>>

IsNone(x) == x = <<>>

Val(x) == x[1]

(***************************************************************************)
(* Calendar arithmetic of datetime.date / calendar.monthrange              *)
(***************************************************************************)
IsLeap(y) == (y % 4 = 0) /\ ((y % 100 # 0) \/ (y % 400 = 0))

DaysInMonth(y, m) ==
    IF m = 2 THEN (IF IsLeap(y) THEN 29 ELSE 28)
    ELSE IF m \in {4, 6, 9, 11} THEN 30 ELSE 31

DaysBeforeYear(y) ==
    (y - 1) * 365 + ((y - 1) \div 4) - ((y - 1) \div 100) + ((y - 1) \div 400)

DaysBeforeMonth(y, m) ==
    <<0, 31, 59, 90, 120, 151, 181, 212, 243, 273, 304, 334>>[m]
        + (IF m > 2 /\ IsLeap(y) THEN 1 ELSE 0)

ToOrdinal(y, m, d) == DaysBeforeYear(y) + DaysBeforeMonth(y, m) + d

\* date.weekday(): 0 = Monday .. 6 = Sunday
Weekday(d) == (d + 6) % 7

(***************************************************************************)
(* Decimal.quantize(Decimal("0.01"), rounding=ROUND_HALF_UP) of n/d,       *)
(* d > 0, in hundredths: ties go away from zero.                           *)
(***************************************************************************)
RoundHalfUp(n, d) ==
    IF n >= 0 THEN (2 * n + d) \div (2 * d)
    ELSE -((2 * (-n) + d) \div (2 * d))

RECURSIVE SumSeq(_)
SumSeq(s) == IF s = <<>> THEN 0 ELSE Head(s) + SumSeq(Tail(s))

(***************************************************************************)
(* date.year / date.month / date.day of an ordinal                         *)
(***************************************************************************)
YearOf(d) ==
    CHOOSE y \in (d \div 366)..((d \div 365) + 1) :
        DaysBeforeYear(y) < d /\ d <= DaysBeforeYear(y + 1)

MonthOf(d) ==
    LET y == YearOf(d)
    IN  CHOOSE m \in 1..12 :
            /\ ToOrdinal(y, m, 1) <= d
            /\ d <= ToOrdinal(y, m, DaysInMonth(y, m))

DayOf(d) == d - ToOrdinal(YearOf(d), MonthOf(d), 1) + 1

(***************************************************************************)
(* core/holidays.py                                                        *)
(***************************************************************************)
\* The month and day handed to date(year, month, day).
calculate_easter_day_off_by_one(year) ==
    LET a == year % 19
        b == year \div 100
        c == year % 100
        d == b \div 4
        e == b % 4
        f == (b + 8) \div 25
        g == (b - f + 1) \div 3
        h == (19 * a + b - d - g + 15) % 30
        i == c \div 4
        k == c % 4
        ell == (32 + 2 * e + 2 * i - h - k) % 7
        m == (a + 11 * h + 22 * ell) \div 451
    IN  [year  |-> year,
         month |-> (h + ell - 7 * m + 114) \div 31,
         day   |-> (h + ell - 7 * m + 114) % 31]

calculate_easter(year) ==
    LET a == year % 19
        b == year \div 100
        c == year % 100
        d == b \div 4
        e == b % 4
        f == (b + 8) \div 25
        g == (b - f + 1) \div 3
        h == (19 * a + b - d - g + 15) % 30
        i == c \div 4
        k == c % 4
        ell == (32 + 2 * e + 2 * i - h - k) % 7
        m == (a + 11 * h + 22 * ell) \div 451
    IN  [year  |-> year,
         month |-> (h + ell - 7 * m + 114) \div 31,
         day   |-> ((h + ell - 7 * m + 114) % 31) + 1]

DateOrdinal(dt) == ToOrdinal(dt.year, dt.month, dt.day)

\* holidays[key] = name on a dict: a later assignment to the same date
\* replaces the name.
DictSet(dict, key, name) ==
    [x \in (DOMAIN dict) \cup {key} |-> IF x = key THEN name ELSE dict[x]]

EmptyDict == [x \in {} |-> ""]

get_german_holidays(year) ==
    LET easter == DateOrdinal(calculate_easter(year))
        h1 == DictSet(EmptyDict, ToOrdinal(year, 1, 1), "Neujahr")
        h2 == DictSet(h1, ToOrdinal(year, 5, 1), "Tag der Arbeit")
        h3 == DictSet(h2, ToOrdinal(year, 10, 3), "Tag der Deutschen Einheit")
        h4 == DictSet(h3, ToOrdinal(year, 12, 25), "1. Weihnachtstag")
        h5 == DictSet(h4, ToOrdinal(year, 12, 26), "2. Weihnachtstag")
        h6 == DictSet(h5, easter - 2, "Karfreitag")
        h7 == DictSet(h6, easter + 1, "Ostermontag")
        h8 == DictSet(h7, easter + 39, "Christi Himmelfahrt")
    IN  DictSet(h8, easter + 50, "Pfingstmontag")

is_holiday(check_date) == check_date \in DOMAIN get_german_holidays(YearOf(check_date))

(***************************************************************************)
(* AbsenceType                                                             *)
(***************************************************************************)
AbsenceType == {"none", "vacation", "sick", "holiday", "flex_time"}

(***************************************************************************)
(* database/calculations.py                                                *)
(***************************************************************************)
\* (end - start) hours minus break_minutes / 60, quantized half-up.  With
\* minute-granular times the exact value is a multiple of 1/60 h, which is
\* never within float error of a rounding tie, so the float division and
\* str() round trip of the code do not change the rounded result.
actual_hours(entry) ==
    IF IsNone(entry.start_time) \/ IsNone(entry.end_time) THEN 0
    ELSE RoundHalfUp(100 * ((Val(entry.end_time) - Val(entry.start_time))
                            - entry.break_minutes), 60)

target_hours_no_holiday_rule(entry, s) ==
    IF Weekday(entry.work_date) >= 5 THEN 0
    ELSE RoundHalfUp(s.weekly_target_hours, 5)

target_hours_saturday_workday(entry, s) ==
    IF Weekday(entry.work_date) >= 6 THEN 0
    ELSE IF entry.absence_type = "holiday" THEN 0
    ELSE RoundHalfUp(s.weekly_target_hours, 5)

target_hours(entry, s) ==
    IF Weekday(entry.work_date) >= 5 THEN 0
    ELSE IF entry.absence_type = "holiday" THEN 0
    ELSE RoundHalfUp(s.weekly_target_hours, 5)

balance_sick_not_neutral(entry, s) ==
    IF entry.absence_type \in {"vacation"} THEN 0
    ELSE actual_hours(entry) - target_hours(entry, s)

balance(entry, s) ==
    IF entry.absence_type \in {"vacation", "sick"} THEN 0
    ELSE actual_hours(entry) - target_hours(entry, s)

(***************************************************************************)
(* services/time_calculation.py: TimeCalculationService                    *)
(***************************************************************************)
RECURSIVE SumDailyBalance(_, _)
SumDailyBalance(es, s) ==
    IF es = {} THEN 0
    ELSE LET e == CHOOSE x \in es : TRUE
         IN  balance(e, s) + SumDailyBalance(es \ {e}, s)

all_time_balance_exclusive_cutoff(es, s, target_date) ==
    LET f1 == IF IsNone(s.tracking_start_date) THEN es
              ELSE {e \in es : e.work_date >= Val(s.tracking_start_date)}
        f2 == IF IsNone(target_date) THEN f1
              ELSE {e \in f1 : e.work_date < Val(target_date)}
        total == SumDailyBalance(f2, s)
    IN  IF IsNone(s.initial_hours_offset) THEN total
        ELSE total + Val(s.initial_hours_offset)

all_time_balance_before_tracking_start(es, s, target_date) ==
    LET f2 == IF IsNone(target_date) THEN es
              ELSE {e \in es : e.work_date <= Val(target_date)}
        total == SumDailyBalance(f2, s)
    IN  IF IsNone(s.initial_hours_offset) THEN total
        ELSE total + Val(s.initial_hours_offset)

all_time_balance(es, s, target_date) ==
    LET f1 == IF IsNone(s.tracking_start_date) THEN es
              ELSE {e \in es : e.work_date >= Val(s.tracking_start_date)}
        f2 == IF IsNone(target_date) THEN f1
              ELSE {e \in f1 : e.work_date <= Val(target_date)}
        total == SumDailyBalance(f2, s)
    IN  IF IsNone(s.initial_hours_offset) THEN total
        ELSE total + Val(s.initial_hours_offset)

day_summary_holiday_aware(es, s, current_date) ==
    IF \E e \in es : e.work_date = current_date
    THEN LET entry == CHOOSE e \in es : e.work_date = current_date
         IN  [date         |-> current_date,
              actual_hours |-> actual_hours(entry),
              target_hours |-> target_hours(entry, s),
              balance      |-> balance(entry, s),
              absence_type |-> entry.absence_type,
              has_entry    |-> TRUE]
    ELSE LET target == IF Weekday(current_date) < 5 /\ ~is_holiday(current_date)
                       THEN RoundHalfUp(s.weekly_target_hours, 5)
                       ELSE 0
         IN  [date         |-> current_date,
              actual_hours |-> 0,
              target_hours |-> target,
              balance      |-> 0 - target,
              absence_type |-> "none",
              has_entry    |-> FALSE]

\* One DaySummary: the slot of current_date in weekly_summary's loop.
day_summary(es, s, current_date) ==
    IF \E e \in es : e.work_date = current_date
    THEN LET entry == CHOOSE e \in es : e.work_date = current_date
         IN  [date         |-> current_date,
              actual_hours |-> actual_hours(entry),
              target_hours |-> target_hours(entry, s),
              balance      |-> balance(entry, s),
              absence_type |-> entry.absence_type,
              has_entry    |-> TRUE]
    ELSE LET target == IF Weekday(current_date) < 5
                       THEN RoundHalfUp(s.weekly_target_hours, 5)
                       ELSE 0
         IN  [date         |-> current_date,
              actual_hours |-> 0,
              target_hours |-> target,
              balance      |-> 0 - target,
              absence_type |-> "none",
              has_entry    |-> FALSE]

weekly_summary(es, s, week_start) ==
    LET days == [i \in 1..7 |-> day_summary(es, s, week_start + (i - 1))]
    IN  [week_start    |-> week_start,
         week_end      |-> week_start + 6,
         days          |-> days,
         total_actual  |-> SumSeq([i \in 1..7 |-> days[i].actual_hours]),
         total_target  |-> SumSeq([i \in 1..7 |-> days[i].target_hours]),
         total_balance |-> SumSeq([i \in 1..7 |-> days[i].balance])]

\* The while loop of monthly_summary: one WeeklySummary per displayed week.
RECURSIVE month_weeks(_, _, _, _)
month_weeks(es, s, week_start, last_day) ==
    IF week_start <= last_day
    THEN <<weekly_summary({e \in es : week_start <= e.work_date
                                      /\ e.work_date <= week_start + 6},
                          s, week_start)>>
         \o month_weeks(es, s, week_start + 7, last_day)
    ELSE <<>>

RECURSIVE FlattenDays(_)
FlattenDays(weeks) ==
    IF weeks = <<>> THEN <<>>
    ELSE Head(weeks).days \o FlattenDays(Tail(weeks))

month_days_unfiltered(weeks, first_day, last_day) == FlattenDays(weeks)

month_days_after_first_day(weeks, first_day, last_day) ==
    LET InMonth(day) == first_day < day.date /\ day.date <= last_day
    IN  SelectSeq(FlattenDays(weeks), InMonth)

\* The day slots that are accumulated into the month totals.
month_days(weeks, first_day, last_day) ==
    LET InMonth(day) == first_day <= day.date /\ day.date <= last_day
    IN  SelectSeq(FlattenDays(weeks), InMonth)

month_carryover_in_cutoff_first_day(es, s, first_day, last_day) ==
    IF ~IsNone(s.tracking_start_date)
    THEN IF first_day <= Val(s.tracking_start_date)
            /\ Val(s.tracking_start_date) <= last_day
         THEN (IF IsNone(s.initial_hours_offset) THEN 0
               ELSE Val(s.initial_hours_offset))
         ELSE IF Val(s.tracking_start_date) < first_day
         THEN all_time_balance(es, s, Some(first_day))
         ELSE 0
    ELSE 0

month_carryover_in_epoch_exclusive(es, s, first_day, last_day) ==
    IF ~IsNone(s.tracking_start_date)
    THEN IF first_day < Val(s.tracking_start_date)
            /\ Val(s.tracking_start_date) <= last_day
         THEN (IF IsNone(s.initial_hours_offset) THEN 0
               ELSE Val(s.initial_hours_offset))
         ELSE IF Val(s.tracking_start_date) < first_day
         THEN all_time_balance(es, s, Some(first_day - 1))
         ELSE 0
    ELSE 0

month_carryover_in_offset_without_epoch(es, s, first_day, last_day) ==
    IF ~IsNone(s.tracking_start_date)
    THEN IF first_day <= Val(s.tracking_start_date)
            /\ Val(s.tracking_start_date) <= last_day
         THEN (IF IsNone(s.initial_hours_offset) THEN 0
               ELSE Val(s.initial_hours_offset))
         ELSE IF Val(s.tracking_start_date) < first_day
         THEN all_time_balance(es, s, Some(first_day - 1))
         ELSE 0
    ELSE (IF IsNone(s.initial_hours_offset) THEN 0
          ELSE Val(s.initial_hours_offset))

month_carryover_in(es, s, first_day, last_day) ==
    IF ~IsNone(s.tracking_start_date)
    THEN IF first_day <= Val(s.tracking_start_date)
            /\ Val(s.tracking_start_date) <= last_day
         THEN (IF IsNone(s.initial_hours_offset) THEN 0
               ELSE Val(s.initial_hours_offset))
         ELSE IF Val(s.tracking_start_date) < first_day
         THEN all_time_balance(es, s, Some(first_day - 1))
         ELSE 0
    ELSE 0

month_carryover_out_period_only(carryover_in, period_balance) ==
    period_balance

month_carryover_out(carryover_in, period_balance) ==
    carryover_in + period_balance

monthly_summary(es, s, year, month) ==
    LET first_day == ToOrdinal(year, month, 1)
        last_day  == ToOrdinal(year, month, DaysInMonth(year, month))
        weeks     == month_weeks(es, s, first_day - Weekday(first_day), last_day)
        counted   == month_days(weeks, first_day, last_day)
        n         == Len(counted)
        period_balance == SumSeq([i \in 1..n |-> counted[i].balance])
        carryover_in   == month_carryover_in(es, s, first_day, last_day)
    IN  [year           |-> year,
         month          |-> month,
         weeks          |-> weeks,
         total_actual   |-> SumSeq([i \in 1..n |-> counted[i].actual_hours]),
         total_target   |-> SumSeq([i \in 1..n |-> counted[i].target_hours]),
         period_balance |-> period_balance,
         carryover_in   |-> carryover_in,
         carryover_out  |-> month_carryover_out(carryover_in, period_balance)]

(***************************************************************************)
(* Inputs                                                                  *)
(***************************************************************************)
\* Largest number of records in a history snapshot.
MaxEntries == 2

\* TimeEntryUpdate.break_minutes: Field(None, ge=0, le=480)
MaxBreakMinutes == 480

\* update_tracking_settings: weekly hours between 0 and 80
MaxWeeklyTargetHours == 80

\* The months that are summarised: December 2025 .. February 2026.
Months == {<<2025, 12>>, <<2026, 1>>, <<2026, 2>>}

FirstDay(ym) == ToOrdinal(ym[1], ym[2], 1)

LastDay(ym) == ToOrdinal(ym[1], ym[2], DaysInMonth(ym[1], ym[2]))

\* Record dates: a Monday before a mid-December epoch, the Monday of the
\* week that straddles December and January, the first and the last day of
\* January (Thursday, Saturday), the Sunday and the Monday that follow.
EntryDates ==
    {ToOrdinal(2025, 12, 8), ToOrdinal(2025, 12, 29), ToOrdinal(2026, 1, 1),
     ToOrdinal(2026, 1, 31), ToOrdinal(2026, 2, 1), ToOrdinal(2026, 2, 2)}

\* A work day 07:00-17:50 with a 30 minute break (10.33 h), a vacation day
\* and a flex-time day without times.
EntryShapes ==
    {[start_time |-> Some(420), end_time |-> Some(1070), break_minutes |-> 30,
      absence_type |-> "none"],
     [start_time |-> None, end_time |-> None, break_minutes |-> 0,
      absence_type |-> "vacation"],
     [start_time |-> None, end_time |-> None, break_minutes |-> 0,
      absence_type |-> "flex_time"]}

TimeEntry(d, shape) ==
    [work_date     |-> d,
     start_time    |-> shape.start_time,
     end_time      |-> shape.end_time,
     break_minutes |-> shape.break_minutes,
     absence_type  |-> shape.absence_type]

\* Snapshots with at most one record per date (uq_user_date).
Snapshots ==
    UNION {{{TimeEntry(d, f[d]) : d \in D} : f \in [D -> EntryShapes]} :
           D \in {X \in SUBSET EntryDates : Cardinality(X) <= MaxEntries}}

UserSettings ==
    [weekly_target_hours  : {3203, 4000},
     tracking_start_date  : {None, Some(ToOrdinal(2025, 12, 10)),
                             Some(ToOrdinal(2026, 1, 1))},
     initial_hours_offset : {None, Some(-550), Some(1250)}]

Cutoffs == {None} \cup {Some(LastDay(ym)) : ym \in Months}

NoResult == [op |-> "none"]

(***************************************************************************)
(* Specification of the period summaries and the ledger balance            *)
(***************************************************************************)
Init ==
    /\ entries \in Snapshots
    /\ settings \in UserSettings
    /\ result = NoResult

CallMonthlySummary ==
    \E ym \in Months :
        /\ result' = [op      |-> "monthly_summary",
                      summary |-> monthly_summary(entries, settings, ym[1], ym[2])]
        /\ UNCHANGED <<entries, settings>>

CallAllTimeBalance ==
    \E target_date \in Cutoffs :
        /\ result' = [op          |-> "all_time_balance",
                      target_date |-> target_date,
                      value       |-> all_time_balance(entries, settings, target_date)]
        /\ UNCHANGED <<entries, settings>>

Next == CallMonthlySummary \/ CallAllTimeBalance

Spec == Init /\ [][Next]_vars

(***************************************************************************)
(* Specification of the daily calculations                                 *)
(***************************************************************************)
\* Monday 2026-01-05 .. Sunday 2026-01-11
DailyDates == {ToOrdinal(2026, 1, 5) + i : i \in 0..6}

DailyEntries ==
    [work_date     : DailyDates,
     start_time    : {None, Some(420), Some(900)},
     end_time      : {None, Some(900), Some(1040)},
     break_minutes : {0, 30, MaxBreakMinutes},
     absence_type  : AbsenceType]

DailySettings ==
    [weekly_target_hours  : {0, 3203, 4000, 100 * MaxWeeklyTargetHours},
     tracking_start_date  : {None},
     initial_hours_offset : {None}]

InitDaily ==
    /\ \E e \in DailyEntries : entries = {e}
    /\ settings \in DailySettings
    /\ result = NoResult

CallDaily ==
    \E e \in entries :
        /\ result' = [op           |-> "daily",
                      entry        |-> e,
                      actual_hours |-> actual_hours(e),
                      target_hours |-> target_hours(e, settings),
                      balance      |-> balance(e, settings)]
        /\ UNCHANGED <<entries, settings>>

NextDaily == CallDaily

SpecDaily == InitDaily /\ [][NextDaily]_vars

(***************************************************************************)
(* Properties of the monthly summary and the ledger balance (Spec)         *)
(***************************************************************************)
IsMonthly == result.op = "monthly_summary"

ResultMonth == <<result.summary.year, result.summary.month>>

HasEpoch == ~IsNone(settings.tracking_start_date)

Epoch == Val(settings.tracking_start_date)

\* The month of the result contains tracking_start_date.
IsEpochMonth ==
    HasEpoch /\ FirstDay(ResultMonth) <= Epoch /\ Epoch <= LastDay(ResultMonth)

\* The month of the result starts after tracking_start_date.
IsAfterEpochMonth == HasEpoch /\ Epoch < FirstDay(ResultMonth)

OffsetOrZero ==
    IF IsNone(settings.initial_hours_offset) THEN 0
    ELSE Val(settings.initial_hours_offset)

\* C1: decomposition law.  For a month N after the epoch month,
\* all_time_balance(cutoff = last day of N) equals
\* all_time_balance(cutoff = last day of N-1) plus monthly_summary(N).period_balance.
C1_DecompositionLaw ==
    (IsMonthly /\ IsAfterEpochMonth) =>
        all_time_balance(entries, settings, Some(LastDay(ResultMonth)))
            = all_time_balance(entries, settings, Some(FirstDay(ResultMonth) - 1))
              + result.summary.period_balance

\* C2 as stated: for every month that is not the epoch month, with
\* tracking_start_date set, carryover_in equals all_time_balance up to the
\* last day of the previous month.
C2_CarryInEveryNonEpochMonth ==
    (IsMonthly /\ HasEpoch /\ ~IsEpochMonth) =>
        result.summary.carryover_in
            = all_time_balance(entries, settings, Some(FirstDay(ResultMonth) - 1))

\* C2 amended: for every month after the epoch month, carryover_in equals
\* all_time_balance up to the last day of the previous month.
C2_CarryInAfterEpochMonth ==
    (IsMonthly /\ IsAfterEpochMonth) =>
        result.summary.carryover_in
            = all_time_balance(entries, settings, Some(FirstDay(ResultMonth) - 1))

\* A month after the epoch month whose history holds a record with a
\* non-zero balance and an initial offset.
C2_Witness ==
    /\ IsMonthly /\ IsAfterEpochMonth
    /\ ~IsNone(settings.initial_hours_offset)
    /\ \E e \in entries : /\ Epoch <= e.work_date
                          /\ e.work_date < FirstDay(ResultMonth)
                          /\ balance(e, settings) # 0
    /\ result.summary.carryover_in # OffsetOrZero

\* C3: in the epoch month carryover_in is initial_hours_offset alone (0.00
\* when unset), whatever records the input holds.
C3_EpochMonthCarryIn ==
    (IsMonthly /\ IsEpochMonth) => result.summary.carryover_in = OffsetOrZero

\* The epoch month, summarised over a history with a record before the
\* epoch and a record of the epoch month on or after the epoch, both with a
\* non-zero balance.
C3_Witness ==
    /\ IsMonthly /\ IsEpochMonth
    /\ ~IsNone(settings.initial_hours_offset)
    /\ \E e \in entries : e.work_date < Epoch /\ balance(e, settings) # 0
    /\ \E e \in entries : /\ Epoch <= e.work_date
                          /\ e.work_date <= LastDay(ResultMonth)
                          /\ balance(e, settings) # 0
    /\ result.summary.carryover_in = Val(settings.initial_hours_offset)

\* C4: without tracking_start_date carryover_in is 0.00 for every month,
\* record set and initial_hours_offset.
C4_NoEpochCarryInZero ==
    (IsMonthly /\ ~HasEpoch) => result.summary.carryover_in = 0

\* No epoch, an offset that is set, and records before the month with a
\* non-zero balance.
C4_Witness ==
    /\ IsMonthly /\ ~HasEpoch
    /\ ~IsNone(settings.initial_hours_offset)
    /\ \E e \in entries : /\ e.work_date < FirstDay(ResultMonth)
                          /\ balance(e, settings) # 0
    /\ result.summary.carryover_in = 0

InWindow(d, target_date) ==
    /\ (HasEpoch => Epoch <= d)
    /\ (~IsNone(target_date) => d <= Val(target_date))

\* C6: all_time_balance is the sum of the daily balances of exactly the
\* records with tracking_start_date <= work_date <= cutoff (a null bound
\* being open) plus initial_hours_offset when set.
C6_AllTimeBalanceWindow ==
    result.op = "all_time_balance" =>
        result.value
            = SumDailyBalance({e \in entries : InWindow(e.work_date, result.target_date)},
                              settings)
              + OffsetOrZero

\* A cutoff and an epoch, a record dated on the cutoff and a record before
\* the epoch, both with a non-zero balance.
C6_Witness ==
    /\ result.op = "all_time_balance"
    /\ HasEpoch /\ ~IsNone(result.target_date)
    /\ \E e \in entries : /\ e.work_date = Val(result.target_date)
                          /\ Epoch <= e.work_date
                          /\ balance(e, settings) # 0
    /\ \E e \in entries : e.work_date < Epoch /\ balance(e, settings) # 0

\* The value of one field of the record of date d, 0 without a record.
DayValue(d, Field(_)) ==
    IF \E e \in entries : e.work_date = d
    THEN Field(CHOOSE e \in entries : e.work_date = d)
    ELSE 0

EmptyDayTarget(d) ==
    IF (\E e \in entries : e.work_date = d) \/ Weekday(d) >= 5 THEN 0
    ELSE RoundHalfUp(settings.weekly_target_hours, 5)

SumOverDates(lo, hi, F(_)) == SumSeq([i \in 1..(hi - lo + 1) |-> F(lo + (i - 1))])

\* C10: the month totals are the sums of the day values over exactly the
\* calendar dates of the month; every displayed week has its 7 slots, also
\* for dates of an adjacent month.
C10_MonthTotalsInMonthOnly ==
    IsMonthly =>
        LET lo == FirstDay(ResultMonth)
            hi == LastDay(ResultMonth)
            Actual(d) == DayValue(d, actual_hours)
            EntryTarget(e) == target_hours(e, settings)
            Target(d) == DayValue(d, EntryTarget) + EmptyDayTarget(d)
            EntryBalance(e) == balance(e, settings)
            Balance(d) == DayValue(d, EntryBalance) - EmptyDayTarget(d)
            weeks == result.summary.weeks
        IN  /\ result.summary.total_actual = SumOverDates(lo, hi, Actual)
            /\ result.summary.total_target = SumOverDates(lo, hi, Target)
            /\ result.summary.period_balance = SumOverDates(lo, hi, Balance)
            /\ weeks[1].week_start <= lo /\ lo <= weeks[1].week_end
            /\ weeks[Len(weeks)].week_start <= hi /\ hi <= weeks[Len(weeks)].week_end
            /\ \A w \in 1..Len(weeks) : \A i \in 1..7 :
                   weeks[w].days[i].date = weeks[1].week_start + 7 * (w - 1) + (i - 1)

\* A summary whose first or last displayed week shows a record of an
\* adjacent month with non-zero actual hours and balance.
C10_Witness ==
    /\ IsMonthly
    /\ \E w \in 1..Len(result.summary.weeks) : \E i \in 1..7 :
           LET day == result.summary.weeks[w].days[i]
           IN  /\ (day.date < FirstDay(ResultMonth) \/ day.date > LastDay(ResultMonth))
               /\ day.has_entry
               /\ day.actual_hours # 0
               /\ day.balance # 0

(***************************************************************************)
(* Properties of the daily calculations (SpecDaily)                        *)
(***************************************************************************)
IsDaily == result.op = "daily"

HasTimes(e) == ~IsNone(e.start_time) /\ ~IsNone(e.end_time)

\* C7: a vacation or sick record has daily balance 0.00, whatever the
\* weekday, the weekly target, the times and the break.
C7_VacationSickNeutral ==
    (IsDaily /\ result.entry.absence_type \in {"vacation", "sick"}) =>
        result.balance = 0

\* A sick record on a working day with times set, non-zero actual hours
\* and a non-zero target.
C7_Witness ==
    /\ IsDaily
    /\ result.entry.absence_type = "sick"
    /\ HasTimes(result.entry)
    /\ result.actual_hours # 0
    /\ result.target_hours # 0
    /\ result.actual_hours # result.target_hours
    /\ result.balance = 0

\* C8 as stated: a holiday record has target 0.00 and daily balance 0.00.
C8_HolidayBalanceZero ==
    (IsDaily /\ result.entry.absence_type = "holiday") =>
        (result.target_hours = 0 /\ result.balance = 0)

\* C8 amended: a holiday record has target 0.00 and a daily balance equal to
\* its actual hours, which is 0.00 when no times are set.
C8_HolidayTargetZero ==
    (IsDaily /\ result.entry.absence_type = "holiday") =>
        /\ result.target_hours = 0
        /\ result.balance = result.actual_hours
        /\ (~HasTimes(result.entry) => result.balance = 0)

\* A holiday record on a working day with a non-zero weekly target and
\* times that give non-zero actual hours.
C8_Witness ==
    /\ IsDaily
    /\ result.entry.absence_type = "holiday"
    /\ Weekday(result.entry.work_date) < 5
    /\ settings.weekly_target_hours > 0
    /\ HasTimes(result.entry)
    /\ result.actual_hours # 0
    /\ result.target_hours = 0
    /\ result.balance = result.actual_hours

\* C9: a record dated on a Saturday or Sunday has target 0.00 for every
\* absence category and weekly target; its daily balance is its actual hours
\* unless the category is vacation or sick.
C9_WeekendTargetZero ==
    (IsDaily /\ Weekday(result.entry.work_date) >= 5) =>
        /\ result.target_hours = 0
        /\ (result.entry.absence_type \notin {"vacation", "sick"}
                => result.balance = result.actual_hours)

\* A Saturday record with times, a non-zero weekly target and a category
\* other than vacation, sick and holiday.
C9_Witness ==
    /\ IsDaily
    /\ Weekday(result.entry.work_date) = 5
    /\ result.entry.absence_type \in {"none", "flex_time"}
    /\ settings.weekly_target_hours > 0
    /\ result.actual_hours > 0
    /\ result.balance = result.actual_hours

(***************************************************************************)
(* Specification of the weekly summary                                     *)
(***************************************************************************)
\* The Mondays of the weeks that hold a record date.
WeekStarts == {d - Weekday(d) : d \in EntryDates}

\* get_weekly_summary: the records of the week are handed to weekly_summary.
CallWeeklySummary ==
    \E week_start \in WeekStarts :
        /\ result' = [op      |-> "weekly_summary",
                      summary |-> weekly_summary(
                                      {e \in entries : week_start <= e.work_date
                                                       /\ e.work_date <= week_start + 6},
                                      settings, week_start)]
        /\ UNCHANGED <<entries, settings>>

NextWeekly == CallWeeklySummary

SpecWeekly == Init /\ [][NextWeekly]_vars

IsWeekly == result.op = "weekly_summary"

\* C11: weekly_summary returns 7 day slots Monday..Sunday in order; a date
\* without a record has actual 0.00, the weekday target (weekly target / 5
\* on Monday..Friday, 0.00 on Saturday and Sunday, also on a public holiday)
\* and balance -target; each total is the sum of the 7 slot values.
C11_WeeklySummarySlots ==
    IsWeekly =>
        LET w == result.summary
            days == w.days
        IN  /\ Len(days) = 7
            /\ \A i \in 1..7 :
                   /\ days[i].date = w.week_start + (i - 1)
                   /\ Weekday(days[i].date) = i - 1
                   /\ days[i].has_entry = (\E e \in entries : e.work_date = days[i].date)
                   /\ ~days[i].has_entry =>
                          /\ days[i].actual_hours = 0
                          /\ days[i].target_hours
                                 = (IF i <= 5 THEN RoundHalfUp(settings.weekly_target_hours, 5)
                                    ELSE 0)
                          /\ days[i].balance = 0 - days[i].target_hours
            /\ w.total_actual  = SumSeq([i \in 1..7 |-> days[i].actual_hours])
            /\ w.total_target  = SumSeq([i \in 1..7 |-> days[i].target_hours])
            /\ w.total_balance = SumSeq([i \in 1..7 |-> days[i].balance])

\* A week with a record and with a working day without a record that is a
\* public holiday and still carries the full daily target.
C11_Witness ==
    /\ IsWeekly
    /\ \E i \in 1..7 : result.summary.days[i].has_entry
    /\ \E i \in 1..5 :
           LET day == result.summary.days[i]
           IN  /\ ~day.has_entry
               /\ is_holiday(day.date)
               /\ day.target_hours > 0
               /\ day.balance = 0 - day.target_hours

(***************************************************************************)
(* Specification of the holiday calculator                                 *)
(***************************************************************************)
\* "valid for years 1583-4099 in the Gregorian calendar"
MinYear == 1583

MaxYear == 4099

Years == MinYear..MaxYear

\* The year asked for is drawn at the start and kept in the result record.
InitHolidays ==
    /\ entries = {}
    /\ settings = None
    /\ \E year \in Years : result = [op |-> "none", year |-> year]

CallCalculateEaster ==
    /\ result' = [op |-> "calculate_easter", year |-> result.year,
                  easter |-> calculate_easter(result.year)]
    /\ UNCHANGED <<entries, settings>>

CallGetGermanHolidays ==
    /\ result' = [op |-> "get_german_holidays", year |-> result.year,
                  holidays |-> get_german_holidays(result.year)]
    /\ UNCHANGED <<entries, settings>>

NextHolidays == CallCalculateEaster \/ CallGetGermanHolidays

SpecHolidays == InitHolidays /\ [][NextHolidays]_vars

IsHolidays == result.op = "get_german_holidays"

\* C12: for every year in 1583..4099 get_german_holidays(year) has exactly
\* 9 entries, the 5 fixed and the 4 Easter-relative dates being pairwise
\* distinct.  Violated in the years whose Easter is March 23 (1636, 1704,
\* ..., 1913, 2008, 2160, ...): Easter + 39 is May 1, the assignment of
\* "Christi Himmelfahrt" overwrites "Tag der Arbeit", 8 entries remain.
C12_ExactlyNineHolidays ==
    IsHolidays => Cardinality(DOMAIN result.holidays) = 9

\* C13: for every year in 1583..4099 calculate_easter yields a valid date of
\* that year, a Sunday between March 22 and April 25; April 5 for 2026.
C13_EasterSunday ==
    result.op = "calculate_easter" =>
        LET dt == result.easter
        IN  /\ dt.year = result.year
            /\ dt.month \in {3, 4}
            /\ 1 <= dt.day /\ dt.day <= DaysInMonth(dt.year, dt.month)
            /\ Weekday(DateOrdinal(dt)) = 6
            /\ ToOrdinal(dt.year, 3, 22) <= DateOrdinal(dt)
            /\ DateOrdinal(dt) <= ToOrdinal(dt.year, 4, 25)
            /\ (result.year = 2026 => (dt.month = 4 /\ dt.day = 5))

\* Easter of 2026.
C13_Witness ==
    /\ result.op = "calculate_easter"
    /\ result.year = 2026
    /\ result.easter.month = 4
    /\ result.easter.day = 5

(***************************************************************************)
(* VacationCalculationService                                              *)
(* Vacation days are integers in hundredths of a day (Numeric(5, 2)).      *)
(***************************************************************************)
Min(a, b) == IF a <= b THEN a ELSE b

\* relativedelta.__radd__ restricted to years and months: the month is
\* moved, the day is clamped to the length of the target month.
AddMonths(d, months) ==
    LET total == YearOf(d) * 12 + (MonthOf(d) - 1) + months
        year  == total \div 12
        month == (total % 12) + 1
    IN  ToOrdinal(year, month, Min(DaysInMonth(year, month), DayOf(d)))

\* relativedelta(dt1, dt2): the month difference of the calendar fields is
\* moved towards zero until dt2 + months does not pass dt1.
RECURSIVE AdjustMonths(_, _, _)
AdjustMonths(dt1, dt2, months) ==
    LET dtm == AddMonths(dt2, months)
    IN  IF dt1 < dt2
        THEN IF dt1 > dtm THEN AdjustMonths(dt1, dt2, months + 1) ELSE months
        ELSE IF dt1 < dtm THEN AdjustMonths(dt1, dt2, months - 1) ELSE months

relativedelta_months(dt1, dt2) ==
    AdjustMonths(dt1, dt2,
                 (YearOf(dt1) - YearOf(dt2)) * 12 + (MonthOf(dt1) - MonthOf(dt2)))

\* relativedelta(dt1, dt2).years: _set_months splits the months with the
\* sign kept, so the quotient is truncated towards zero.
relativedelta_years(dt1, dt2) ==
    LET months == relativedelta_months(dt1, dt2)
    IN  IF months >= 0 THEN months \div 12 ELSE 0 - ((0 - months) \div 12)

\* "settings.x or Decimal('0')"
OrZero(x) == IF IsNone(x) THEN 0 ELSE Val(x)

count_vacation_days_any_absence(es, start, end) ==
    100 * Cardinality({e \in es : /\ e.absence_type # "none"
                                  /\ start <= e.work_date
                                  /\ e.work_date <= end})

count_vacation_days(es, start, end) ==
    100 * Cardinality({e \in es : /\ e.absence_type = "vacation"
                                  /\ start <= e.work_date
                                  /\ e.work_date <= end})

valid_carryover_never_expires(s, as_of) ==
    OrZero(s.vacation_carryover_days)

valid_carryover(s, as_of) ==
    IF ~IsNone(s.vacation_carryover_expires)
    THEN IF as_of <= Val(s.vacation_carryover_expires)
         THEN OrZero(s.vacation_carryover_days)
         ELSE 0
    ELSE OrZero(s.vacation_carryover_days)

annual_entitlement_calendar_years(s, as_of) ==
    LET annual_days == OrZero(s.annual_vacation_days)
    IN  IF ~IsNone(s.tracking_start_date) /\ annual_days > 0
        THEN LET years_diff == YearOf(as_of) - YearOf(Val(s.tracking_start_date))
             IN  IF years_diff > 0 THEN annual_days * years_diff ELSE 0
        ELSE 0

annual_entitlement(s, as_of) ==
    LET annual_days == OrZero(s.annual_vacation_days)
    IN  IF ~IsNone(s.tracking_start_date) /\ annual_days > 0
        THEN LET years_diff == relativedelta_years(as_of, Val(s.tracking_start_date))
             IN  IF years_diff > 0 THEN annual_days * years_diff ELSE 0
        ELSE 0

MinSet(S) == CHOOSE x \in S : \A y \in S : x <= y

calculate_balance(es, s, as_of) ==
    LET initial_days      == OrZero(s.initial_vacation_days)
        total_entitlement == initial_days + valid_carryover(s, as_of)
                                 + annual_entitlement(s, as_of)
        days_used ==
            IF ~IsNone(s.tracking_start_date)
            THEN count_vacation_days(es, Val(s.tracking_start_date), as_of)
            ELSE IF es # {}
                 THEN count_vacation_days(es, MinSet({e.work_date : e \in es}), as_of)
                 ELSE 0
    IN  [total_entitlement |-> total_entitlement,
         days_used         |-> days_used,
         days_remaining    |-> total_entitlement - days_used,
         carryover_days    |-> valid_carryover(s, as_of),
         carryover_expires |-> s.vacation_carryover_expires]

get_expiry_warning_critical_through_7(bal, as_of) ==
    IF bal.carryover_days = 0 THEN None
    ELSE IF IsNone(bal.carryover_expires) THEN None
    ELSE IF as_of > Val(bal.carryover_expires) THEN None
    ELSE LET days_until_expiry == Val(bal.carryover_expires) - as_of
         IN  IF days_until_expiry > 30 THEN None
             ELSE Some([severity      |-> IF days_until_expiry <= 7 THEN "critical"
                                          ELSE IF days_until_expiry <= 14 THEN "warning"
                                          ELSE "info",
                        days_expiring |-> bal.carryover_days,
                        expiry_date   |-> Val(bal.carryover_expires)])

\* The German message text of the warning is left out: it repeats
\* days_expiring and expiry_date.
get_expiry_warning(bal, as_of) ==
    IF bal.carryover_days = 0 THEN None
    ELSE IF IsNone(bal.carryover_expires) THEN None
    ELSE IF as_of > Val(bal.carryover_expires) THEN None
    ELSE LET days_until_expiry == Val(bal.carryover_expires) - as_of
         IN  IF days_until_expiry > 30 THEN None
             ELSE Some([severity      |-> IF days_until_expiry < 7 THEN "critical"
                                          ELSE IF days_until_expiry <= 14 THEN "warning"
                                          ELSE "info",
                        days_expiring |-> bal.carryover_days,
                        expiry_date   |-> Val(bal.carryover_expires)])

(***************************************************************************)
(* Specification of the vacation engine                                    *)
(***************************************************************************)
VacationDates ==
    {ToOrdinal(2024, 12, 31), ToOrdinal(2025, 1, 1), ToOrdinal(2026, 3, 31)}

\* Records without clock times, one per absence type.
VacationShapes ==
    {[start_time |-> None, end_time |-> None, break_minutes |-> 0, absence_type |-> a] :
         a \in AbsenceType \ {"none"}}

VacationSnapshots ==
    UNION {{{TimeEntry(d, f[d]) : d \in D} : f \in [D -> VacationShapes]} :
           D \in {X \in SUBSET VacationDates : Cardinality(X) <= MaxEntries}}

VacationSettings ==
    [tracking_start_date        : {None, Some(ToOrdinal(2025, 1, 1)),
                                   Some(ToOrdinal(2024, 2, 29))},
     initial_vacation_days      : {None, Some(2500)},
     annual_vacation_days       : {None, Some(0), Some(3000)},
     vacation_carryover_days    : {None, Some(0), Some(500)},
     vacation_carryover_expires : {None, Some(ToOrdinal(2026, 3, 31))}]

BalanceDates ==
    {ToOrdinal(2023, 6, 30), ToOrdinal(2024, 12, 31), ToOrdinal(2025, 2, 28),
     ToOrdinal(2025, 12, 31), ToOrdinal(2026, 1, 1), ToOrdinal(2026, 3, 31),
     ToOrdinal(2026, 4, 1), ToOrdinal(2026, 6, 30)}

InitVacation ==
    /\ entries \in VacationSnapshots
    /\ settings \in VacationSettings
    /\ result = NoResult

CallCalculateBalance ==
    \E as_of \in BalanceDates :
        /\ result' = [op      |-> "calculate_balance",
                      as_of   |-> as_of,
                      balance |-> calculate_balance(entries, settings, as_of)]
        /\ UNCHANGED <<entries, settings>>

NextVacation == CallCalculateBalance

SpecVacation == InitVacation /\ [][NextVacation]_vars

(***************************************************************************)
(* Specification of the expiry warning                                     *)
(***************************************************************************)
CarryoverExpires == ToOrdinal(2026, 3, 31)

\* The balances of a user without vacation records whose carry-over of
\* 0 or 5 days has no expiry date or expires on 2026-03-31.
WarningBalances ==
    {calculate_balance({}, s, CarryoverExpires) :
         s \in {x \in VacationSettings : /\ IsNone(x.tracking_start_date)
                                         /\ x.initial_vacation_days = Some(2500)
                                         /\ IsNone(x.annual_vacation_days)}}

\* 35 days before the expiry date .. 2 days after it.
WarningDates == (CarryoverExpires - 35)..(CarryoverExpires + 2)

InitWarning ==
    /\ entries = {}
    /\ settings = None
    /\ \E bal \in WarningBalances : result = [op |-> "calculate_balance", balance |-> bal]

CallGetExpiryWarning ==
    \E as_of \in WarningDates :
        /\ result' = [op      |-> "get_expiry_warning",
                      as_of   |-> as_of,
                      balance |-> result.balance,
                      warning |-> get_expiry_warning(result.balance, as_of)]
        /\ UNCHANGED <<entries, settings>>

NextWarning == CallGetExpiryWarning

SpecWarning == InitWarning /\ [][NextWarning]_vars

(***************************************************************************)
(* Properties of the vacation engine                                       *)
(***************************************************************************)
IsBalance == result.op = "calculate_balance"

CarryoverCounted ==
    \/ IsNone(settings.vacation_carryover_expires)
    \/ result.as_of <= Val(settings.vacation_carryover_expires)

\* C14: calculate_balance counts the carry-over days in total_entitlement
\* exactly when the expiry date is null or as_of is on or before it; after
\* the expiry date the reported carryover_days is 0 and the total excludes
\* the carried days.
C14_CarryoverUntilExpiry ==
    (IsBalance /\ settings \in VacationSettings) =>
        LET bal == result.balance
            carried == IF CarryoverCounted
                       THEN OrZero(settings.vacation_carryover_days) ELSE 0
        IN  /\ bal.carryover_days = carried
            /\ bal.total_entitlement
                   = OrZero(settings.initial_vacation_days)
                         + annual_entitlement(settings, result.as_of) + carried

\* A balance after the expiry date of 5 carried days.
C14_Witness ==
    /\ IsBalance
    /\ settings \in VacationSettings
    /\ settings.vacation_carryover_days = Some(500)
    /\ ~CarryoverCounted
    /\ result.balance.carryover_days = 0

\* The anniversaries of start that are on or before as_of; the anniversary
\* of a February 29 in a common year is February 28.
FullYears(start, as_of) ==
    Cardinality({n \in 1..(YearOf(as_of) - YearOf(start)) :
                     AddMonths(start, 12 * n) <= as_of})

\* C15: the annual part of the entitlement is annual_vacation_days times the
\* full years elapsed from tracking_start_date to as_of: 0 before the first
\* anniversary, when as_of precedes the start date, when the start date is
\* null and when annual_vacation_days is 0.  With initial 25, annual 30,
\* start 2025-01-01 and as_of 2026-06-30 the total entitlement is 55.
C15_AnnualPartFullYears ==
    (IsBalance /\ settings \in VacationSettings) =>
        LET bal == result.balance
            annual_part == bal.total_entitlement
                               - OrZero(settings.initial_vacation_days)
                               - bal.carryover_days
        IN  /\ annual_part
                   = IF IsNone(settings.tracking_start_date) THEN 0
                     ELSE OrZero(settings.annual_vacation_days)
                              * FullYears(Val(settings.tracking_start_date), result.as_of)
            /\ (/\ settings.initial_vacation_days = Some(2500)
                /\ settings.annual_vacation_days = Some(3000)
                /\ settings.tracking_start_date = Some(ToOrdinal(2025, 1, 1))
                /\ result.as_of = ToOrdinal(2026, 6, 30)
                /\ bal.carryover_days = 0)
                   => bal.total_entitlement = 5500

\* The example of the claim.
C15_Witness ==
    /\ IsBalance
    /\ settings \in VacationSettings
    /\ settings.initial_vacation_days = Some(2500)
    /\ settings.annual_vacation_days = Some(3000)
    /\ settings.tracking_start_date = Some(ToOrdinal(2025, 1, 1))
    /\ result.as_of = ToOrdinal(2026, 6, 30)
    /\ result.balance.total_entitlement = 5500

\* The first day of the window in which vacation records are counted.
CountFrom ==
    IF ~IsNone(settings.tracking_start_date) THEN Val(settings.tracking_start_date)
    ELSE MinSet({e.work_date : e \in entries})

CountedRecords ==
    IF IsNone(settings.tracking_start_date) /\ entries = {} THEN {}
    ELSE {e \in entries : CountFrom <= e.work_date /\ e.work_date <= result.as_of}

\* C17: days_remaining is total_entitlement - days_used, not clamped at 0;
\* days_used is the number of vacation records with work_date in
\* [tracking_start_date, as_of] (from the earliest record date when the
\* start date is null); sick, holiday and flex-time records never count.
C17_DaysUsedAndRemaining ==
    (IsBalance /\ settings \in VacationSettings) =>
        LET bal == result.balance
        IN  /\ bal.days_remaining = bal.total_entitlement - bal.days_used
            /\ bal.days_used
                   = 100 * Cardinality({e \in CountedRecords : e.absence_type = "vacation"})

\* More vacation days taken than granted, with another absence in the
\* window that is not counted.
C17_Witness ==
    /\ IsBalance
    /\ settings \in VacationSettings
    /\ result.balance.days_remaining < 0
    /\ result.balance.days_used = 100
    /\ \E e \in CountedRecords : e.absence_type \in {"sick", "holiday", "flex_time"}

(***************************************************************************)
(* Properties of the expiry warning                                        *)
(***************************************************************************)
IsWarning == result.op = "get_expiry_warning"

DaysUntilExpiry == Val(result.balance.carryover_expires) - result.as_of

NoWarningCase ==
    \/ result.balance.carryover_days = 0
    \/ IsNone(result.balance.carryover_expires)
    \/ result.as_of > Val(result.balance.carryover_expires)
    \/ DaysUntilExpiry > 30

QueryMonth(es, year, month) ==
    {e \in es : /\ ToOrdinal(year, month, 1) <= e.work_date
                /\ e.work_date <= ToOrdinal(year, month, DaysInMonth(year, month))}

\* summaries.get_monthly_summary with year and month given.
CallGetMonthlySummary ==
    \E ym \in Months :
        /\ result' = [op      |-> "get_monthly_summary",
                      status  |-> 200,
                      summary |-> monthly_summary(QueryMonth(entries, ym[1], ym[2]),
                                                  settings, ym[1], ym[2])]
        /\ UNCHANGED <<entries, settings>>

\* time_entries.list_time_entries with month and year given: the month's
\* records are listed and summarised.
CallListTimeEntries ==
    \E ym \in Months :
        /\ result' = [op      |-> "list_time_entries",
                      status  |-> 200,
                      listed  |-> QueryMonth(entries, ym[1], ym[2]),
                      summary |-> monthly_summary(QueryMonth(entries, ym[1], ym[2]),
                                                  settings, ym[1], ym[2])]
        /\ UNCHANGED <<entries, settings>>

NextRoutes == CallGetMonthlySummary \/ CallListTimeEntries

SpecRoutes == Init /\ [][NextRoutes]_vars

IsMonthView == result.op \in {"get_monthly_summary", "list_time_entries"}

\* C18: for a month after the epoch month both month views report
\* carryover_in = all_time_balance over the complete stored history of the
\* user up to the last day of the previous month.  Violated: both routes
\* query only the records of the requested month and hand those to
\* monthly_summary, so the history before the month never reaches
\* carryover_in and it is the initial offset alone.
C18_RoutesCarryInOverFullHistory ==
    (IsMonthView /\ IsAfterEpochMonth) =>
        result.summary.carryover_in
            = all_time_balance(entries, settings, Some(FirstDay(ResultMonth) - 1))

(***************************************************************************)
(* The time entry store: POST, PATCH, DELETE /time-entries and the CSV     *)
(* import.  `entries` is the table time_entries; a row has the columns id, *)
(* user_id, work_date, start_time, end_time, break_minutes, absence_type   *)
(* and status.  `settings` is the settings row of the current user, None   *)
(* while it does not exist.  A form or file time string "HH:MM" is the     *)
(* pair <<HH, MM>>, the empty string is <<>>; a form field that is not     *)
(* sent is None.                                                           *)
(***************************************************************************)
\* get_current_user_id: "return 1"
CurrentUser == 1

\* time(hours, minutes) and strptime(time_str, "%H:%M") accept 00:00..23:59.
ValidTime(time_str) ==
    /\ Len(time_str) = 2
    /\ time_str[1] \in 0..23
    /\ time_str[2] \in 0..59

parse_time_string(time_str) ==
    IF IsNone(time_str) \/ Val(time_str) = <<>>
    THEN [ok |-> TRUE, value |-> None]
    ELSE IF ValidTime(Val(time_str))
    THEN [ok |-> TRUE, value |-> Some(60 * Val(time_str)[1] + Val(time_str)[2])]
    ELSE [ok |-> FALSE, value |-> None]

\* TimeEntryUpdate: break_minutes = Field(None, ge=0, le=480)
TimeEntryUpdate(break_minutes) ==
    IsNone(break_minutes) \/ Val(break_minutes) \in 0..MaxBreakMinutes

uq_user_date_absent(es, user_id, work_date) == TRUE

\* UniqueConstraint("user_id", "work_date"): may a row for (user_id,
\* work_date) be inserted?
uq_user_date(es, user_id, work_date) ==
    ~\E e \in es : e.user_id = user_id /\ e.work_date = work_date

MaxOf(S) == CHOOSE x \in S : \A y \in S : y <= x

\* INTEGER PRIMARY KEY of SQLite: one more than the largest id in the table.
NextId(es) == IF es = {} THEN 1 ELSE MaxOf({e.id : e \in es}) + 1

\* UserSettings(user_id, weekly_target_hours = 40.00)
DefaultSettings ==
    [weekly_target_hours  |-> 4000,
     tracking_start_date  |-> None,
     initial_hours_offset |-> None]

\* get_entry_context: the settings row is created when it is missing.
get_entry_context(s) == IF IsNone(s) THEN Some(DefaultSettings) ELSE s

create_time_entry(es, s, req) ==
    LET start == parse_time_string(req.start_time)
        end   == parse_time_string(req.end_time)
        entry == [id            |-> NextId(es),
                  user_id       |-> CurrentUser,
                  work_date     |-> req.work_date,
                  start_time    |-> start.value,
                  end_time      |-> end.value,
                  break_minutes |-> req.break_minutes,
                  absence_type  |-> req.absence_type,
                  status        |-> "draft"]
    IN  IF ~start.ok
        THEN [status |-> 422, detail |-> "Ungültige Startzeit",
              entries |-> es, settings |-> s]
        ELSE IF ~end.ok
        THEN [status |-> 422, detail |-> "Ungültige Endzeit",
              entries |-> es, settings |-> s]
        ELSE IF ~TimeEntryUpdate(Some(req.break_minutes))
        THEN [status |-> 422, detail |-> "ValidationError",
              entries |-> es, settings |-> s]
        ELSE IF ~uq_user_date(es, CurrentUser, req.work_date)
        THEN [status |-> 422, detail |-> "Eintrag für dieses Datum ist bereits vorhanden",
              entries |-> es, settings |-> s]
        ELSE [status |-> 201, detail |-> "",
              entries |-> es \cup {entry}, settings |-> get_entry_context(s)]

\* update_time_entry without the check of the status.
update_time_entry_unlocked(es, s, entry_id, req) ==
    IF ~\E e \in es : e.id = entry_id /\ e.user_id = CurrentUser
    THEN [status |-> 404, entries |-> es, settings |-> s]
    ELSE
    LET entry == CHOOSE e \in es : e.id = entry_id /\ e.user_id = CurrentUser
        start == parse_time_string(req.start_time)
        end   == parse_time_string(req.end_time)
        updated ==
            [entry EXCEPT
                !.start_time    = IF IsNone(req.start_time) THEN @ ELSE start.value,
                !.end_time      = IF IsNone(req.end_time) THEN @ ELSE end.value,
                !.break_minutes = IF IsNone(req.break_minutes) THEN @
                                  ELSE Val(req.break_minutes),
                !.absence_type  = IF IsNone(req.absence_type) THEN @
                                  ELSE Val(req.absence_type)]
    IN  IF (~IsNone(req.start_time) /\ ~start.ok)
           \/ (~IsNone(req.end_time) /\ ~end.ok)
        THEN [status |-> 422, entries |-> es, settings |-> s]
        ELSE IF ~IsNone(req.absence_type) /\ Val(req.absence_type) \notin AbsenceType
        THEN [status |-> 500, entries |-> es, settings |-> s]
        ELSE IF ~TimeEntryUpdate(req.break_minutes)
        THEN [status |-> 422, entries |-> es, settings |-> s]
        ELSE [status |-> 200, entries |-> (es \ {entry}) \cup {updated},
              settings |-> get_entry_context(s)]

\* PATCH /time-entries/{entry_id}: a form field that is not sent is None.
\* The route declares no updated_at field; one that is sent is ignored.
\* AbsenceType(absence_type) raises ValueError for an unknown value, which
\* the handler does not catch.
update_time_entry(es, s, entry_id, req) ==
    IF ~\E e \in es : e.id = entry_id /\ e.user_id = CurrentUser
    THEN [status |-> 404, entries |-> es, settings |-> s]
    ELSE
    LET entry == CHOOSE e \in es : e.id = entry_id /\ e.user_id = CurrentUser
        start == parse_time_string(req.start_time)
        end   == parse_time_string(req.end_time)
        updated ==
            [entry EXCEPT
                !.start_time    = IF IsNone(req.start_time) THEN @ ELSE start.value,
                !.end_time      = IF IsNone(req.end_time) THEN @ ELSE end.value,
                !.break_minutes = IF IsNone(req.break_minutes) THEN @
                                  ELSE Val(req.break_minutes),
                !.absence_type  = IF IsNone(req.absence_type) THEN @
                                  ELSE Val(req.absence_type)]
    IN  IF entry.status = "submitted"
        THEN [status |-> 422, entries |-> es, settings |-> s]
        ELSE IF (~IsNone(req.start_time) /\ ~start.ok)
                \/ (~IsNone(req.end_time) /\ ~end.ok)
        THEN [status |-> 422, entries |-> es, settings |-> s]
        ELSE IF ~IsNone(req.absence_type) /\ Val(req.absence_type) \notin AbsenceType
        THEN [status |-> 500, entries |-> es, settings |-> s]
        ELSE IF ~TimeEntryUpdate(req.break_minutes)
        THEN [status |-> 422, entries |-> es, settings |-> s]
        ELSE [status |-> 200, entries |-> (es \ {entry}) \cup {updated},
              settings |-> get_entry_context(s)]

delete_time_entry(es, entry_id) ==
    IF ~\E e \in es : e.id = entry_id /\ e.user_id = CurrentUser
    THEN [status |-> 404, entries |-> es]
    ELSE [status |-> 204,
          entries |-> es \ {e \in es : e.id = entry_id /\ e.user_id = CurrentUser}]

\* ImportService._parse_time: None for the empty and for an invalid string.
parse_time(time_str) ==
    IF time_str = <<>> THEN None
    ELSE IF ValidTime(time_str) THEN Some(60 * time_str[1] + time_str[2])
    ELSE None

\* ImportService._parse_row: the parsed row, or the error codes of a row
\* with an invalid date or an invalid time string.  The work_date of a file
\* row is None when its date string does not parse.
parse_row(row_dict) ==
    LET start_time == parse_time(row_dict.start_time)
        end_time   == parse_time(row_dict.end_time)
        errors ==
            (IF IsNone(row_dict.work_date) THEN <<"invalid_date">> ELSE <<>>)
            \o (IF row_dict.start_time # <<>> /\ IsNone(start_time)
                THEN <<"invalid_time">> ELSE <<>>)
            \o (IF row_dict.end_time # <<>> /\ IsNone(end_time)
                THEN <<"invalid_time">> ELSE <<>>)
    IN  IF errors # <<>>
        THEN [errors |-> errors]
        ELSE [errors        |-> <<>>,
              work_date     |-> Val(row_dict.work_date),
              start_time    |-> start_time,
              end_time      |-> end_time,
              break_minutes |-> row_dict.break_minutes,
              absence_type  |-> row_dict.absence_type]

\* ImportService._validate_business_rules: the error codes of the row.
validate_business_rules(row) ==
    (IF ~IsNone(row.start_time) /\ IsNone(row.end_time)
     THEN <<"missing_end_time">> ELSE <<>>)
    \o (IF ~IsNone(row.end_time) /\ IsNone(row.start_time)
        THEN <<"missing_start_time">> ELSE <<>>)
    \o (IF ~IsNone(row.start_time) /\ ~IsNone(row.end_time)
        THEN IF Val(row.end_time) <= Val(row.start_time)
             THEN <<"end_before_start">>
             ELSE IF row.break_minutes > Val(row.end_time) - Val(row.start_time)
             THEN <<"break_exceeds_duration">>
             ELSE <<>>
        ELSE <<>>)

\* import_row that skips a stored date without counting it.
import_row_uncounted_skip(row, rule_errors, existing_dates, skip_duplicates, acc) ==
    IF row.errors # <<>>
    THEN [acc EXCEPT !.errors = @ \o row.errors]
    ELSE IF rule_errors # <<>>
    THEN [acc EXCEPT !.errors = @ \o rule_errors]
    ELSE IF row.work_date \in acc.seen_dates
    THEN [acc EXCEPT !.errors = Append(@, "duplicate_date_in_file")]
    ELSE IF row.work_date \in existing_dates
    THEN IF skip_duplicates
         THEN [acc EXCEPT !.seen_dates = @ \cup {row.work_date}]
         ELSE [acc EXCEPT !.seen_dates = @ \cup {row.work_date},
                          !.errors = Append(@, "duplicate_date")]
    ELSE [acc EXCEPT !.seen_dates = @ \cup {row.work_date},
                     !.entries = Append(@, row)]

\* One pass of the row loop of import_file for a parsed row; acc holds
\* errors (their codes), entries (the rows to insert), skipped_count and
\* seen_dates.
import_row(row, rule_errors, existing_dates, skip_duplicates, acc) ==
    IF row.errors # <<>>
    THEN [acc EXCEPT !.errors = @ \o row.errors]
    ELSE IF rule_errors # <<>>
    THEN [acc EXCEPT !.errors = @ \o rule_errors]
    ELSE IF row.work_date \in acc.seen_dates
    THEN [acc EXCEPT !.errors = Append(@, "duplicate_date_in_file")]
    ELSE IF row.work_date \in existing_dates
    THEN IF skip_duplicates
         THEN [acc EXCEPT !.seen_dates = @ \cup {row.work_date},
                          !.skipped_count = @ + 1]
         ELSE [acc EXCEPT !.seen_dates = @ \cup {row.work_date},
                          !.errors = Append(@, "duplicate_date")]
    ELSE [acc EXCEPT !.seen_dates = @ \cup {row.work_date},
                     !.entries = Append(@, row)]

\* The row loop of import_file from row i on.
RECURSIVE import_rows(_, _, _, _, _)
import_rows(rows, i, existing_dates, skip_duplicates, acc) ==
    IF i > Len(rows) THEN acc
    ELSE import_rows(rows, i + 1, existing_dates, skip_duplicates,
                     import_row(parse_row(rows[i]),
                                IF parse_row(rows[i]).errors # <<>> THEN <<>>
                                ELSE validate_business_rules(parse_row(rows[i])),
                                existing_dates, skip_duplicates, acc))

\* import_commit that inserts the rows without error of a file that has
\* rows with errors.
import_commit_partial(es, acc, user_id, dry_run) ==
    [success |-> acc.errors = <<>>,
     imported_count |-> IF acc.errors = <<>> THEN Len(acc.entries) ELSE 0,
     skipped_count |-> IF acc.errors = <<>> THEN acc.skipped_count ELSE 0,
     errors |-> acc.errors,
     entries |->
         IF dry_run THEN es
         ELSE es \cup
              {[id            |-> NextId(es) + (k - 1),
                user_id       |-> user_id,
                work_date     |-> acc.entries[k].work_date,
                start_time    |-> acc.entries[k].start_time,
                end_time      |-> acc.entries[k].end_time,
                break_minutes |-> acc.entries[k].break_minutes,
                absence_type  |-> acc.entries[k].absence_type,
                status        |-> "draft"] : k \in 1..Len(acc.entries)}]

\* The end of import_file: nothing is inserted when a row had an error or
\* dry_run is set.
import_commit(es, acc, user_id, dry_run) ==
    IF acc.errors # <<>>
    THEN [success |-> FALSE, imported_count |-> 0, skipped_count |-> 0,
          errors |-> acc.errors, entries |-> es]
    ELSE [success |-> TRUE, imported_count |-> Len(acc.entries),
          skipped_count |-> acc.skipped_count, errors |-> <<>>,
          entries |->
              IF dry_run THEN es
              ELSE es \cup
                   {[id            |-> NextId(es) + (k - 1),
                     user_id       |-> user_id,
                     work_date     |-> acc.entries[k].work_date,
                     start_time    |-> acc.entries[k].start_time,
                     end_time      |-> acc.entries[k].end_time,
                     break_minutes |-> acc.entries[k].break_minutes,
                     absence_type  |-> acc.entries[k].absence_type,
                     status        |-> "draft"] : k \in 1..Len(acc.entries)}]

\* ImportService.import_file for a file whose structure is valid.
import_file(es, rows, user_id, dry_run, skip_duplicates) ==
    import_commit(es,
                  import_rows(rows, 1,
                              {e.work_date : e \in {x \in es : x.user_id = user_id}},
                              skip_duplicates,
                              [errors |-> <<>>, entries |-> <<>>, skipped_count |-> 0,
                               seen_dates |-> {}]),
                  user_id, dry_run)

(***************************************************************************)
(* Specification of the time entry store                                   *)
(***************************************************************************)
\* Largest id that is handed out.
MaxId == 3

StoreDates == {ToOrdinal(2026, 1, 5), ToOrdinal(2026, 1, 6)}

\* Form fields of POST /time-entries: a well-formed hour, end before start,
\* start without end and a break above 480.
CreateShapes ==
    {[start_time |-> Some(<<7, 0>>), end_time |-> Some(<<8, 0>>), break_minutes |-> 0,
      absence_type |-> "none"],
     [start_time |-> Some(<<8, 0>>), end_time |-> Some(<<7, 0>>), break_minutes |-> 0,
      absence_type |-> "none"],
     [start_time |-> Some(<<7, 0>>), end_time |-> None, break_minutes |-> 0,
      absence_type |-> "none"],
     [start_time |-> Some(<<7, 0>>), end_time |-> Some(<<8, 0>>),
      break_minutes |-> MaxBreakMinutes + 1, absence_type |-> "none"]}

CreateRequests ==
    {[work_date     |-> d,
      start_time    |-> f.start_time,
      end_time      |-> f.end_time,
      break_minutes |-> f.break_minutes,
      absence_type  |-> f.absence_type] : d \in StoreDates, f \in CreateShapes}

\* Form fields of PATCH /time-entries/{id}: a new end time, a break above
\* 480; absence_type and notes are not sent.
UpdateRequests ==
    {[start_time |-> None, end_time |-> Some(<<7, 0>>), break_minutes |-> None,
      absence_type |-> None],
     [start_time |-> None, end_time |-> None, break_minutes |-> Some(MaxBreakMinutes + 1),
      absence_type |-> None]}

\* Rows of an import file: a well-formed hour on either date and an hour
\* that ends before it starts.
FileRows ==
    {[work_date |-> Some(d), start_time |-> <<7, 0>>, end_time |-> <<8, 0>>,
      break_minutes |-> 0, absence_type |-> "none"] : d \in StoreDates}
    \cup
    {[work_date |-> Some(ToOrdinal(2026, 1, 5)), start_time |-> <<8, 0>>,
      end_time |-> <<7, 0>>, break_minutes |-> 0, absence_type |-> "none"]}

\* Files of one row and of two rows.
Files == {<<r>> : r \in FileRows} \cup {<<r1, r2>> : r1 \in FileRows, r2 \in FileRows}

\* user_id query parameter of POST /import.
ImportUsers == {1, 2}

InitStore ==
    /\ entries = {}
    /\ settings = None
    /\ result = NoResult

\* POST /time-entries
CreateTimeEntry ==
    \E req \in CreateRequests :
        \E r \in {create_time_entry(entries, settings, req)} :
            /\ \A e \in r.entries : e.id <= MaxId
            /\ entries' = r.entries
            /\ settings' = r.settings
            /\ result' = [op |-> "create_time_entry", work_date |-> req.work_date,
                          status |-> r.status, detail |-> r.detail]

\* PATCH /time-entries/{entry_id}
UpdateTimeEntry ==
    \E entry_id \in 1..MaxId, req \in UpdateRequests :
        \E r \in {update_time_entry(entries, settings, entry_id, req)} :
            /\ entries' = r.entries
            /\ settings' = r.settings
            /\ result' = [op |-> "update_time_entry", entry_id |-> entry_id,
                          status |-> r.status]

\* DELETE /time-entries/{entry_id}
DeleteTimeEntry ==
    \E entry_id \in 1..MaxId :
        \E r \in {delete_time_entry(entries, entry_id)} :
            /\ entries' = r.entries
            /\ result' = [op |-> "delete_time_entry", entry_id |-> entry_id,
                          status |-> r.status]
            /\ UNCHANGED settings

\* POST /import without dry_run
ImportFile ==
    \E rows \in Files, user_id \in ImportUsers, skip_duplicates \in BOOLEAN :
        \E r \in {import_file(entries, rows, user_id, FALSE, skip_duplicates)} :
            /\ \A e \in r.entries : e.id <= MaxId
            /\ entries' = r.entries
            /\ result' = [op |-> "import_file",
                          row_count |-> Len(rows),
                          success |-> r.success,
                          imported_count |-> r.imported_count,
                          skipped_count |-> r.skipped_count,
                          errors |-> r.errors]
            /\ UNCHANGED settings

NextStore == CreateTimeEntry \/ UpdateTimeEntry \/ DeleteTimeEntry \/ ImportFile

SpecStore == InitStore /\ [][NextStore]_vars

(***************************************************************************)
(* Properties of the time entry store                                      *)
(***************************************************************************)
OnePerUserDate(es) ==
    \A e1 \in es, e2 \in es :
        (e1.user_id = e2.user_id /\ e1.work_date = e2.work_date) => e1 = e2

Occupied(user_id, work_date) ==
    \E e \in entries : e.user_id = user_id /\ e.work_date = work_date

HasRepeatedDate(rows) ==
    \E i \in 1..Len(rows), j \in 1..Len(rows) :
        i # j /\ rows[i].work_date = rows[j].work_date

\* C19: after any sequence of creates, imports (with or without
\* skip_duplicates), updates and deletes the store holds at most one record
\* per (user, date); a create for an occupied (user, date) is rejected with
\* 422 and changes nothing; an import file that holds the same date twice is
\* rejected as a whole.
C19_OneRecordPerUserAndDate ==
    /\ OnePerUserDate(entries)
    /\ \A req \in CreateRequests :
           Occupied(CurrentUser, req.work_date) =>
               \E r \in {create_time_entry(entries, settings, req)} :
                   /\ r.status = 422
                   /\ r.entries = entries
                   /\ r.settings = settings
    /\ \A rows \in Files, user_id \in ImportUsers, skip_duplicates \in BOOLEAN :
           HasRepeatedDate(rows) =>
               \E r \in {import_file(entries, rows, user_id, FALSE, skip_duplicates)} :
                   /\ ~r.success
                   /\ r.entries = entries

\* A well-formed create for a date of the current user that is occupied
\* was rejected; the other user holds a record on the same date.
C19_Witness ==
    /\ result.op = "create_time_entry"
    /\ result.status = 422
    /\ result.detail = "Eintrag für dieses Datum ist bereits vorhanden"
    /\ Occupied(CurrentUser, result.work_date)
    /\ \E e \in entries : e.user_id # CurrentUser /\ e.work_date = result.work_date

WellFormed(e) ==
    /\ IsNone(e.start_time) <=> IsNone(e.end_time)
    /\ (~IsNone(e.start_time) /\ ~IsNone(e.end_time)) =>
           /\ Val(e.end_time) > Val(e.start_time)
           /\ e.break_minutes <= Val(e.end_time) - Val(e.start_time)

\* C20: every stored record is well-formed: start and end are both set or
\* both absent, end is after start, the break does not exceed the duration,
\* so actual_hours is never negative.  Violated: POST and PATCH check only
\* the time format and 0 <= break_minutes <= 480, validate_time_entry is
\* never called, so 08:00-07:00 is stored with actual_hours -1.00.
C20_StoredRecordsWellFormed ==
    \A e \in entries : WellFormed(e) /\ actual_hours(e) >= 0

(***************************************************************************)
(* Properties of the import (SpecStore)                                    *)
(***************************************************************************)
ImportRequests == Files \X ImportUsers \X BOOLEAN

StoredDates(user_id) == {e.work_date : e \in {x \in entries : x.user_id = user_id}}

\* Row i of the file has an invalid date or time, breaks a business rule,
\* repeats the date of another row, or (without skip_duplicates) holds a
\* date that is stored for the user.
RowHasError(rows, i, user_id, skip_duplicates) ==
    \/ parse_row(rows[i]).errors # <<>>
    \/ validate_business_rules(parse_row(rows[i])) # <<>>
    \/ \E j \in 1..Len(rows) : j # i /\ rows[j].work_date = rows[i].work_date
    \/ ~skip_duplicates /\ Val(rows[i].work_date) \in StoredDates(user_id)

FileHasError(rows, user_id, skip_duplicates) ==
    \E i \in 1..Len(rows) : RowHasError(rows, i, user_id, skip_duplicates)

\* The columns of a stored record apart from its id.
Columns(e) ==
    [user_id |-> e.user_id, work_date |-> e.work_date, start_time |-> e.start_time,
     end_time |-> e.end_time, break_minutes |-> e.break_minutes,
     absence_type |-> e.absence_type, status |-> e.status]

\* The record that row i of a file without errors stands for.
RowColumns(rows, i, user_id) ==
    [user_id |-> user_id, work_date |-> Val(rows[i].work_date),
     start_time |-> parse_time(rows[i].start_time),
     end_time |-> parse_time(rows[i].end_time),
     break_minutes |-> rows[i].break_minutes,
     absence_type |-> rows[i].absence_type, status |-> "draft"]

C27_SkipDuplicatesImportsNewDates ==
    \A rows \in Files, user_id \in ImportUsers :
        ~FileHasError(rows, user_id, TRUE) =>
            \E r \in {import_file(entries, rows, user_id, FALSE, TRUE)} :
                /\ r.success
                /\ entries \subseteq r.entries
                /\ {Columns(e) : e \in r.entries \ entries}
                       = {RowColumns(rows, i, user_id) :
                              i \in {k \in 1..Len(rows) :
                                         Val(rows[k].work_date) \notin StoredDates(user_id)}}
                /\ Cardinality(r.entries \ entries) = r.imported_count
                /\ r.imported_count + r.skipped_count = Len(rows)
                /\ (\A i \in 1..Len(rows) :
                        Val(rows[i].work_date) \in StoredDates(user_id))
                       => r.imported_count = 0

\* A file of two rows was imported: one row was stored, the other one was
\* skipped for its stored date.
C27_Witness ==
    /\ result.op = "import_file"
    /\ result.success
    /\ result.row_count = 2
    /\ result.imported_count = 1
    /\ result.skipped_count = 1


(***************************************************************************)
(* Further properties of the monthly summary (Spec)                        *)
(***************************************************************************)
\* The sum of total_actual over the WeeklySummary objects of the result.
WeeksTotalActual ==
    SumSeq([w \in 1..Len(result.summary.weeks) |-> result.summary.weeks[w].total_actual])

\* The actual hours of the day slots of the displayed weeks that lie outside
\* the month of the result.
OutsideMonthActual ==
    LET days == FlattenDays(result.summary.weeks)
    IN  SumSeq([i \in 1..Len(days) |->
                   IF days[i].date < FirstDay(ResultMonth)
                      \/ days[i].date > LastDay(ResultMonth)
                   THEN days[i].actual_hours ELSE 0])

\* C25 as stated: for every input monthly_summary.total_actual equals the
\* sum of total_actual over the WeeklySummary objects in monthly_summary.weeks.
C25_MonthTotalIsSumOfWeekTotals ==
    IsMonthly => result.summary.total_actual = WeeksTotalActual

\* C25 amended: monthly_summary.total_actual equals the sum of the weekly
\* total_actual minus the actual hours of the day slots of the first and
\* last displayed week that belong to an adjacent month; the two sums are
\* equal exactly when no such day has hours.
C25_MonthTotalIsInMonthPartOfWeekTotals ==
    IsMonthly =>
        /\ result.summary.total_actual = WeeksTotalActual - OutsideMonthActual
        /\ (result.summary.total_actual = WeeksTotalActual) <=> (OutsideMonthActual = 0)

\* A month whose first or last displayed week holds hours of an adjacent
\* month, and hours of the month itself.
C25_Witness ==
    /\ IsMonthly
    /\ OutsideMonthActual > 0
    /\ result.summary.total_actual > 0

\* C26: in the epoch month total_actual, total_target and period_balance
\* reflect only the days on or after tracking_start_date, and so does
\* carryover_out.  Violated: the totals loop of monthly_summary accumulates
\* every day slot of the month; tracking_start_date is consulted for
\* carryover_in only.
C26_EpochMonthTotalsFromEpoch ==
    (IsMonthly /\ IsEpochMonth) =>
        LET hi == LastDay(ResultMonth)
            Actual(d) == DayValue(d, actual_hours)
            EntryTarget(e) == target_hours(e, settings)
            Target(d) == DayValue(d, EntryTarget) + EmptyDayTarget(d)
            EntryBalance(e) == balance(e, settings)
            Balance(d) == DayValue(d, EntryBalance) - EmptyDayTarget(d)
        IN  /\ result.summary.total_actual = SumOverDates(Epoch, hi, Actual)
            /\ result.summary.total_target = SumOverDates(Epoch, hi, Target)
            /\ result.summary.period_balance = SumOverDates(Epoch, hi, Balance)
            /\ result.summary.carryover_out
                   = OffsetOrZero + SumOverDates(Epoch, hi, Balance)

\* The month after the month of the result.
NextMonth ==
    IF ResultMonth[2] = 12 THEN <<ResultMonth[1] + 1, 1>>
    ELSE <<ResultMonth[1], ResultMonth[2] + 1>>

\* C28: for two consecutive months M and M+1 at or after the epoch month,
\* summarised from the same records and settings, carryover_out of M equals
\* carryover_in of M+1.  Violated: period_balance of M charges every weekday
\* without a record with -target (and counts records before the epoch),
\* all_time_balance sums records only.
C28_CarryChainContinuity ==
    (IsMonthly /\ (IsEpochMonth \/ IsAfterEpochMonth) /\ NextMonth \in Months) =>
        result.summary.carryover_out
            = monthly_summary(entries, settings, NextMonth[1], NextMonth[2]).carryover_in

(***************************************************************************)
(* Settings routes                                                         *)
(***************************************************************************)
\* The columns of a new user_settings row; updated_at is written by the
\* database on commit.
NewUserSettings ==
    [weekly_target_hours        |-> 4000,
     tracking_start_date        |-> None,
     initial_hours_offset       |-> None,
     weekday_defaults           |-> None,
     initial_vacation_days      |-> None,
     annual_vacation_days       |-> None,
     vacation_carryover_days    |-> None,
     vacation_carryover_expires |-> None,
     updated_at                 |-> 0]

\* The optimistic locking block of the three settings handlers: 200 stands
\* for a request that passes.  A missing row is created without a check.
check_updated_at(s, form) ==
    IF IsNone(s) THEN 200
    ELSE IF IsNone(form.updated_at) THEN 422
    ELSE IF Val(s).updated_at # Val(form.updated_at) THEN 409
    ELSE 200

\* db.commit(): the INSERT of a new row and the UPDATE of a changed (or
\* flagged) row write updated_at = func.now(), the CURRENT_TIMESTAMP of
\* SQLite in whole seconds; an unchanged row gets no UPDATE.
commit_settings(s, row, now, flagged) ==
    IF IsNone(s) \/ flagged \/ row # Val(s)
    THEN Some([row EXCEPT !.updated_at = now])
    ELSE s

\* PATCH /settings/tracking at database time now.
update_tracking_settings(s, form, now) ==
    LET row == IF IsNone(s) THEN NewUserSettings ELSE Val(s)
        hours == IF IsNone(form.weekly_target_hours) THEN row.weekly_target_hours
                 ELSE Val(form.weekly_target_hours)
    IN  IF check_updated_at(s, form) # 200
        THEN [status |-> check_updated_at(s, form), settings |-> s]
        ELSE IF hours < 0 \/ hours > 100 * MaxWeeklyTargetHours
        THEN [status |-> 422, settings |-> s]
        ELSE [status |-> 200,
              settings |->
                  commit_settings(s,
                      [row EXCEPT !.weekly_target_hours = hours,
                                  !.tracking_start_date = form.tracking_start_date,
                                  !.initial_hours_offset = form.initial_hours_offset],
                      now, FALSE)]

\* PATCH /settings/weekday-defaults at database time now; weekday_0 holds
\* the fields of Monday when they are sent.
update_weekday_defaults(s, form, now) ==
    LET row == IF IsNone(s) THEN NewUserSettings ELSE Val(s)
    IN  IF check_updated_at(s, form) # 200
        THEN [status |-> check_updated_at(s, form), settings |-> s]
        ELSE IF /\ ~IsNone(form.weekday_0)
                /\ \/ ~ValidTime(Val(form.weekday_0).start_time)
                   \/ ~ValidTime(Val(form.weekday_0).end_time)
                   \/ 60 * Val(form.weekday_0).end_time[1] + Val(form.weekday_0).end_time[2]
                        <= 60 * Val(form.weekday_0).start_time[1]
                             + Val(form.weekday_0).start_time[2]
                   \/ Val(form.weekday_0).break_minutes < 0
                   \/ Val(form.weekday_0).break_minutes > MaxBreakMinutes
        THEN [status |-> 422, settings |-> s]
        ELSE [status |-> 200,
              settings |->
                  commit_settings(s,
                      IF IsNone(form.weekday_0) THEN row
                      ELSE [row EXCEPT !.weekday_defaults = form.weekday_0],
                      now, TRUE)]

\* PATCH /settings/vacation at database time now.
update_vacation_settings(s, form, now) ==
    LET row == IF IsNone(s) THEN NewUserSettings ELSE Val(s)
        Negative(v) == ~IsNone(v) /\ Val(v) < 0
    IN  IF check_updated_at(s, form) # 200
        THEN [status |-> check_updated_at(s, form), settings |-> s]
        ELSE IF \/ Negative(form.initial_vacation_days)
                \/ Negative(form.annual_vacation_days)
                \/ Negative(form.vacation_carryover_days)
        THEN [status |-> 422, settings |-> s]
        ELSE [status |-> 200,
              settings |->
                  commit_settings(s,
                      [row EXCEPT
                           !.initial_vacation_days = form.initial_vacation_days,
                           !.annual_vacation_days = form.annual_vacation_days,
                           !.vacation_carryover_days = form.vacation_carryover_days,
                           !.vacation_carryover_expires = form.vacation_carryover_expires],
                      now, FALSE)]

(***************************************************************************)
(* Specification of the settings routes                                    *)
(***************************************************************************)
\* Last second of the database clock.
MaxClock == 2

ClockTimes == 0..MaxClock

\* The updated_at form field: not sent, or a timestamp read earlier.
SentUpdatedAt == {None} \cup {Some(t) : t \in ClockTimes}

TrackingForms ==
    {[updated_at |-> u, weekly_target_hours |-> w, tracking_start_date |-> None,
      initial_hours_offset |-> None] :
         u \in SentUpdatedAt,
         w \in {None, Some(3850), Some(3500), Some(100 * MaxWeeklyTargetHours + 1)}}

WeekdayForms ==
    {[updated_at |-> u, weekday_0 |-> w] :
         u \in SentUpdatedAt,
         w \in {None,
                Some([start_time |-> <<8, 0>>, end_time |-> <<16, 0>>, break_minutes |-> 30]),
                Some([start_time |-> <<16, 0>>, end_time |-> <<8, 0>>, break_minutes |-> 30])}}

VacationForms ==
    {[updated_at |-> u, initial_vacation_days |-> v, annual_vacation_days |-> None,
      vacation_carryover_days |-> None, vacation_carryover_expires |-> None] :
         u \in SentUpdatedAt, v \in {None, Some(1550), Some(-100)}}

\* A database without settings row at second 0.
InitSettings ==
    /\ entries = {}
    /\ settings = None
    /\ result = [op |-> "none", now |-> 0]

\* The response of a settings request together with the time of the
\* request, the updated_at it carried and whether the row existed.
SettingsResult(op, r, form, now) ==
    [op |-> op, status |-> r.status, now |-> now, sent |-> form.updated_at,
     locked |-> ~IsNone(settings)]

\* PATCH /settings/tracking
UpdateTrackingSettings ==
    \E form \in TrackingForms, now \in ClockTimes :
        \E r \in {update_tracking_settings(settings, form, now)} :
            /\ now >= result.now
            /\ settings' = r.settings
            /\ result' = SettingsResult("update_tracking_settings", r, form, now)
            /\ UNCHANGED entries

\* PATCH /settings/weekday-defaults
UpdateWeekdayDefaults ==
    \E form \in WeekdayForms, now \in ClockTimes :
        \E r \in {update_weekday_defaults(settings, form, now)} :
            /\ now >= result.now
            /\ settings' = r.settings
            /\ result' = SettingsResult("update_weekday_defaults", r, form, now)
            /\ UNCHANGED entries

\* PATCH /settings/vacation
UpdateVacationSettings ==
    \E form \in VacationForms, now \in ClockTimes :
        \E r \in {update_vacation_settings(settings, form, now)} :
            /\ now >= result.now
            /\ settings' = r.settings
            /\ result' = SettingsResult("update_vacation_settings", r, form, now)
            /\ UNCHANGED entries

NextSettings == UpdateTrackingSettings \/ UpdateWeekdayDefaults \/ UpdateVacationSettings

SpecSettings == InitSettings /\ [][NextSettings]_vars

(***************************************************************************)
(* Properties of the settings routes                                       *)
(***************************************************************************)
\* The request answered last was applied to an existing row under the
\* updated_at it carried.
AppliedUnderLock ==
    /\ result.op # "none"
    /\ result.locked
    /\ result.status = 200

\* C22: of two settings updates of the user that carry the same previously
\* read updated_at at most one is applied: the request that follows an
\* applied one with the same updated_at is rejected with 409 and leaves the
\* settings as they are.
C22_OneOfTwoStaleUpdatesApplied ==
    [][(AppliedUnderLock /\ result'.sent = result.sent)
           => (result'.status = 409 /\ settings' = settings)]_vars

(***************************************************************************)
(* Specification of the routes on stored records with status and           *)
(* updated_at                                                              *)
(***************************************************************************)
\* TimeEntry.updated_at, onupdate=func.now(): the rows an UPDATE has changed
\* carry the database time.
onupdate(es, updated, now) ==
    {IF e \in es THEN e ELSE [e EXCEPT !.updated_at = now] : e \in updated}

\* A stored hour of work of user_id with a status, written at second 0.
StoredEntry(id, user_id, work_date, status) ==
    [id            |-> id,
     user_id       |-> user_id,
     work_date     |-> work_date,
     start_time    |-> Some(7 * 60),
     end_time      |-> Some(8 * 60),
     break_minutes |-> 0,
     absence_type  |-> "none",
     status        |-> status,
     updated_at    |-> 0]

RecordStatus == {"draft", "submitted"}

\* Stores of two records: one of the current user on 2026-01-05 and one of
\* either user on 2026-01-06.  No route writes the status submitted; it is
\* written to the table directly.
StatusStores ==
    {{StoredEntry(1, CurrentUser, ToOrdinal(2026, 1, 5), s1),
      StoredEntry(2, u, ToOrdinal(2026, 1, 6), s2)} :
         s1 \in RecordStatus, s2 \in RecordStatus, u \in ImportUsers}

\* Form fields of PATCH /time-entries/{id}: each of the fields is sent or
\* not, valid or not, together with the updated_at the client has read.
PatchRequests ==
    [start_time    : {None, Some(<<6, 0>>)},
     end_time      : {None, Some(<<9, 0>>), Some(<<25, 0>>)},
     break_minutes : {None, Some(30), Some(MaxBreakMinutes + 1)},
     absence_type  : {None, Some("vacation")},
     updated_at    : {None} \cup {Some(t) : t \in ClockTimes}]

\* The requests that are sent: a new end time, a break above 480, and a
\* new start time, break and absence type; each with an updated_at.
SentPatchRequests ==
    {req \in PatchRequests :
        \/ /\ req.start_time = None /\ req.end_time = Some(<<9, 0>>)
           /\ req.break_minutes = None /\ req.absence_type = None
        \/ /\ req.start_time = None /\ req.end_time = None
           /\ req.break_minutes = Some(MaxBreakMinutes + 1) /\ req.absence_type = None
        \/ /\ req.start_time = Some(<<6, 0>>) /\ req.end_time = None
           /\ req.break_minutes = Some(30) /\ req.absence_type = Some("vacation")}

InitStatus ==
    /\ entries \in StatusStores
    /\ settings = None
    /\ result = [op |-> "none", now |-> 0]

\* PATCH /time-entries/{entry_id} at database time now
UpdateTimeEntryAt ==
    \E entry_id \in 1..2, req \in SentPatchRequests, now \in ClockTimes :
        \E r \in {update_time_entry(entries, settings, entry_id, req)} :
            /\ now >= result.now
            /\ entries' = onupdate(entries, r.entries, now)
            /\ settings' = r.settings
            /\ result' = [op |-> "update_time_entry", entry_id |-> entry_id,
                          status |-> r.status, now |-> now,
                          sent |-> req.updated_at]

\* DELETE /time-entries/{entry_id} at database time now
DeleteTimeEntryAt ==
    \E entry_id \in 1..2, now \in ClockTimes :
        \E r \in {delete_time_entry(entries, entry_id)} :
            /\ now >= result.now
            /\ entries' = r.entries
            /\ result' = [op |-> "delete_time_entry", entry_id |-> entry_id,
                          status |-> r.status, now |-> now]
            /\ UNCHANGED settings

NextStatus == UpdateTimeEntryAt \/ DeleteTimeEntryAt

SpecStatus == InitStatus /\ [][NextStatus]_vars

(***************************************************************************)
(* Properties of the status and of updated_at (SpecStatus)                 *)
(***************************************************************************)
\* The records the current user can address.
OwnEntries == {e \in entries : e.user_id = CurrentUser}

\* C23: a PATCH /time-entries/{id} that carries an updated_at other than
\* the stored one is rejected with 409 and leaves the record as it is.
C23_StaleEntryUpdateRejected ==
    \A e \in OwnEntries, req \in PatchRequests :
        (~IsNone(req.updated_at) /\ Val(req.updated_at) # e.updated_at) =>
            \E r \in {update_time_entry(entries, settings, e.id, req)} :
                /\ r.status = 409
                /\ r.entries = entries

\* C24: a PATCH /time-entries/{id} on a submitted record is rejected with
\* 422 whatever fields it sends, and every field of the record stays as it
\* is.
C24_SubmittedEntryNotEditable ==
    \A e \in OwnEntries, req \in PatchRequests :
        e.status = "submitted" =>
            \E r \in {update_time_entry(entries, settings, e.id, req)} :
                /\ r.status = 422
                /\ r.entries = entries
                /\ r.settings = settings

\* A PATCH on a submitted record of the current user was answered 422,
\* after another record has been edited.
C24_Witness ==
    /\ result.op = "update_time_entry"
    /\ result.status = 422
    /\ \E e \in OwnEntries : e.id = result.entry_id /\ e.status = "submitted"
    /\ \E e \in entries : e.updated_at > 0

\* C30: a submitted record is locked: DELETE /time-entries/{id} on it is
\* rejected and the record stays stored.
C30_SubmittedEntryNotDeletable ==
    \A e \in OwnEntries :
        e.status = "submitted" =>
            \E r \in {delete_time_entry(entries, e.id)} :
                /\ r.status # 204
                /\ e \in r.entries

(***************************************************************************)
(* Specification of the ledger under creates, edits and deletes            *)
(***************************************************************************)
\* Record dates: a Monday before a mid-December epoch, a Friday in January
\* and a Monday in February.
LedgerDates == {ToOrdinal(2025, 12, 8), ToOrdinal(2026, 1, 2), ToOrdinal(2026, 2, 2)}

\* Form fields of POST /time-entries: 07:00-17:50 with a break of 30
\* minutes, and a flex-time day without times.
LedgerCreateRequests ==
    {[work_date |-> d, start_time |-> f.start_time, end_time |-> f.end_time,
      break_minutes |-> f.break_minutes, absence_type |-> f.absence_type] :
         d \in LedgerDates,
         f \in {[start_time |-> Some(<<7, 0>>), end_time |-> Some(<<17, 50>>),
                 break_minutes |-> 30, absence_type |-> "none"],
                [start_time |-> None, end_time |-> None,
                 break_minutes |-> 0, absence_type |-> "flex_time"]}}

\* Form fields of PATCH /time-entries/{id}: a new end time, and the change
\* to a vacation day.
LedgerUpdateRequests ==
    {[start_time |-> None, end_time |-> Some(<<16, 0>>), break_minutes |-> None,
      absence_type |-> None],
     [start_time |-> None, end_time |-> None, break_minutes |-> None,
      absence_type |-> Some("vacation")]}

\* 40.00 hours a week, with or without epoch, without or with an offset of
\* 12.50 hours.
LedgerSettings ==
    {s \in UserSettings :
        s.weekly_target_hours = 4000 /\ s.initial_hours_offset \in {None, Some(1250)}}

\* The running total of a cutoff before any record is stored.
InitialLedger(s) ==
    [c \in Cutoffs |-> IF IsNone(s.initial_hours_offset) THEN 0
                       ELSE Val(s.initial_hours_offset)]

\* Is the date inside [tracking_start_date, cutoff]?
InLedgerWindow(s, work_date, c) ==
    /\ IsNone(s.tracking_start_date) \/ work_date >= Val(s.tracking_start_date)
    /\ IsNone(c) \/ work_date <= Val(c)

\* The daily balance that the record of id adds to the running total of
\* cutoff c: nothing when there is no such record or its date is outside
\* the window.
LedgerShare(es, s, id, c) ==
    IF \E e \in es : e.id = id /\ InLedgerWindow(s, e.work_date, c)
    THEN balance(CHOOSE e \in es : e.id = id, s)
    ELSE 0

\* The running totals after an operation on the record of id.
Adjust(ledger, s, id, before, after) ==
    [c \in Cutoffs |->
        ledger[c] - LedgerShare(before, s, id, c) + LedgerShare(after, s, id, c)]

InitLedger ==
    /\ entries = {}
    /\ settings \in {Some(s) : s \in LedgerSettings}
    /\ result = [op |-> "none", ledger |-> InitialLedger(Val(settings))]

\* POST /time-entries, with the running total kept beside the store
LedgerCreate ==
    \E req \in LedgerCreateRequests :
        \E r \in {create_time_entry(entries, settings, req)} :
            /\ \A e \in r.entries : e.id <= MaxId
            /\ entries' = r.entries
            /\ settings' = r.settings
            /\ result' = [op |-> "create_time_entry", status |-> r.status,
                          ledger |-> Adjust(result.ledger, Val(settings), NextId(entries),
                                            entries, r.entries)]

\* PATCH /time-entries/{entry_id}, with the running total kept beside the
\* store
LedgerUpdate ==
    \E entry_id \in 1..MaxId, req \in LedgerUpdateRequests :
        \E r \in {update_time_entry(entries, settings, entry_id, req)} :
            /\ entries' = r.entries
            /\ settings' = r.settings
            /\ result' = [op |-> "update_time_entry", status |-> r.status,
                          ledger |-> Adjust(result.ledger, Val(settings), entry_id,
                                            entries, r.entries)]

\* DELETE /time-entries/{entry_id}, with the running total kept beside the
\* store
LedgerDelete ==
    \E entry_id \in 1..MaxId :
        \E r \in {delete_time_entry(entries, entry_id)} :
            /\ entries' = r.entries
            /\ result' = [op |-> "delete_time_entry", status |-> r.status,
                          ledger |-> Adjust(result.ledger, Val(settings), entry_id,
                                            entries, r.entries)]
            /\ UNCHANGED settings

NextLedger == LedgerCreate \/ LedgerUpdate \/ LedgerDelete

SpecLedger == InitLedger /\ [][NextLedger]_vars

(***************************************************************************)
(* Properties of the ledger (SpecLedger)                                   *)
(***************************************************************************)
\* C29: after any sequence of creates, edits and deletes the balance that
\* all_time_balance(cutoff) recomputes from the stored records equals the
\* running total that starts at initial_hours_offset and is adjusted by the
\* change in daily balance of each operation on a record inside
\* [tracking_start_date, cutoff]; an operation on a record outside of the
\* window leaves all_time_balance(cutoff) as it was.
C29_ReplayEqualsRunningTotal ==
    \A c \in Cutoffs :
        all_time_balance(entries, Val(settings), c) = result.ledger[c]

\* A record was edited after later records had been stored; a record lies
\* before tracking_start_date, and the totals of two cutoffs differ.
C29_Witness ==
    /\ result.op = "update_time_entry"
    /\ result.status = 200
    /\ \E e \in entries :
           /\ ~IsNone(Val(settings).tracking_start_date)
           /\ e.work_date < Val(Val(settings).tracking_start_date)
           /\ balance(e, Val(settings)) # 0
    /\ \E c1 \in Cutoffs, c2 \in Cutoffs :
           /\ result.ledger[c1] # result.ledger[c2]
           /\ result.ledger[c1] # InitialLedger(Val(settings))[c1]

====
